---- MODULE Spec2Model ----
(***************************************************************************)
(* Model of the batch registration of vClusters with the platform          *)
(* (AddVClusterHelm / addVClusterHelm / VClusterAddError).                  *)
(*                                                                         *)
(* Error values are records [nil, msg, chain]: msg is the text of          *)
(* err.Error() as a sequence of tokens, chain the messages of the errors   *)
(* reached by errors.Unwrap.  External calls (kube client, find, lifecycle,*)
(* platform, survey) are inputs: every action draws their outcome with \E. *)
(***************************************************************************)
EXTENDS Integers, Sequences, FiniteSets, TLC

\* ---- bounds of the model ------------------------------------------------
MaxTargets == 2
TimeoutTicks == 1

VARIABLES
    opts,        \* options.All, options.Restart
    argName,     \* vClusterName argument of AddVClusterHelm
    gNamespace,  \* globalFlags.Namespace
    world,       \* namespaces of the host cluster, each with its vClusters
    cancelled,   \* ctx.Done() is closed
    pc,          \* position in AddVClusterHelm / addVClusterHelm
    nsIdx,       \* index of the namespace being scanned
    vClusters,   \* var vClusters []find.VCluster
    kubeClient,  \* the instance whose ClientFactory built kubeClient
    idx,         \* index of the range loop over vClusters
    cur,         \* vCluster *find.VCluster inside addVClusterHelm
    snoozed,     \* snoozed
    ticks,       \* poll intervals elapsed in wait.PollUntilContextTimeout
    errs,        \* addErr.errs
    result,      \* value returned by AddVClusterHelm
    retAt,       \* the return statement taken
    trace,       \* external calls made so far, in order
    recorded     \* arguments of every addErr.addErr call, in order

\* BackupCmd.run
VARIABLES
    bpc,         \* position in (*BackupCmd).run
    skip,        \* cmd.Skip
    plane,       \* the management plane: the kinds that hold an object, the kinds whose listing fails
    file0,       \* the file at cmd.Filename before the command
    file,        \* the file at cmd.Filename
    objects,     \* objects returned by backup.All
    collErrs,    \* errors returned by backup.All
    backupBytes, \* backupBytes
    bresult,     \* value returned by RunE
    blog         \* calls made and lines logged so far, in order

avars == <<opts, argName, gNamespace, world, cancelled, pc, nsIdx, vClusters,
           kubeClient, idx, cur, snoozed, ticks, errs, result, retAt, trace,
           recorded>>

bvars == <<bpc, skip, plane, file0, file, objects, collErrs, backupBytes,
           bresult, blog>>

vars == <<avars, bvars>>

\* ---- error values -------------------------------------------------------
Nil == [nil |-> TRUE, msg |-> <<>>, chain |-> <<>>]

New(m) == [nil |-> FALSE, msg |-> m, chain |-> <<>>]

\* fmt.Errorf(prefix + "%w", e)
Wrapf(prefix, e) == [nil |-> FALSE, msg |-> prefix \o e.msg,
                     chain |-> <<e.msg>> \o e.chain]

\* errors an external call may return
DeadlineExceeded == New(<<"context deadline exceeded">>)
Canceled == New(<<"context canceled">>)
ExtErrs == {New(<<"boom">>)}
CtxErrs == ExtErrs \cup {DeadlineExceeded}

NoClient == [Name |-> "", Namespace |-> ""]
NoVCluster == [Name |-> "", Namespace |-> "", Paused |-> FALSE, ConnOK |-> FALSE]

\* the namespaces the host cluster may have, in listing order
HostNamespaces == <<"ns1", "ns2">>

VCName(j) == "vc" \o ToString(j)
NSName(s) == HostNamespaces[s]

\* ---- the host cluster the command runs against --------------------------
MkVCluster(s, j, f) ==
    [Name |-> VCName(j), Namespace |-> NSName(s), Paused |-> f[1], ConnOK |-> f[2]]

ScopeChoices(s, budget) ==
    UNION { { [j \in 1..c |-> MkVCluster(s, j, f[j])] :
                f \in [1..c -> BOOLEAN \X BOOLEAN] } : c \in 0..budget }

RECURSIVE Total(_)
Total(w) == IF w = <<>> THEN 0 ELSE Len(Head(w)) + Total(Tail(w))

RECURSIVE WorldsOf(_)
WorldsOf(n) ==
    IF n = 0 THEN {<<>>}
    ELSE UNION { { Append(w, sc) : sc \in ScopeChoices(n, MaxTargets - Total(w)) } :
                 w \in WorldsOf(n - 1) }

Worlds == UNION { WorldsOf(n) : n \in 0..Len(HostNamespaces) }

RECURSIVE Flatten(_)
Flatten(w) == IF w = <<>> THEN <<>> ELSE Head(w) \o Flatten(Tail(w))

AllNames == { VCName(j) : j \in 1..MaxTargets }
\* values of the --namespace flag: unset, or the first namespace of the host
FlagNamespaces == {"", NSName(1)}

\* one external call: the operation, the loop index of the target it was made
\* for (0 during resolution), whether it succeeded, and for calls made through
\* kubeClient the namespace addressed and the instance the client was built from
Ev(op, t, ok, ns, via) == [op |-> op, t |-> t, ok |-> ok, ns |-> ns, via |-> via]

Call(op, t, ok) == Ev(op, t, ok, "", NoClient)

\* ---- VClusterAddError ---------------------------------------------------
AddPrefix(vClusterName) == <<"cannot add vcluster ", vClusterName, ": ">>

\* variant: the nil test of addErr is missing
addErrAlways(es, vClusterName, err) ==
    Append(es, Wrapf(AddPrefix(vClusterName), err))

\* variant: the newest error is put first
addErrPrepend(es, vClusterName, err) ==
    IF err = Nil THEN es
    ELSE <<Wrapf(AddPrefix(vClusterName), err)>> \o es

addErr(es, vClusterName, err) ==
    IF err = Nil THEN es
    ELSE Append(es, Wrapf(AddPrefix(vClusterName), err))

RECURSIVE WriteAll(_)
WriteAll(es) ==
    IF es = <<>> THEN <<>> ELSE Head(es).msg \o <<"|">> \o WriteAll(Tail(es))

\* variant: only the first stored error is reported
CombinedErrorFirst(es) ==
    IF Len(es) = 0 THEN Nil ELSE es[1]

\* variant: a single stored error is joined like several
CombinedErrorAlwaysJoin(es) ==
    IF Len(es) = 0 THEN Nil ELSE New(WriteAll(es))

CombinedError(es) ==
    IF Len(es) = 0 THEN Nil
    ELSE IF Len(es) = 1 THEN es[1]
    ELSE New(WriteAll(es))

\* ---- errors built by addVClusterHelm ------------------------------------
PromptErr(vClusterName, e) == Wrapf(<<"failed to capture your response ">>, e)

WakeCmdErr(vClusterName, e) ==
    Wrapf(<<"failed to wake up vCluster ", vClusterName, ": ">>, e)

\* variant: the wait failure reuses the text of the wake failure
WakeWaitErrAsWakeCmd(vClusterName, e) ==
    Wrapf(<<"failed to wake up vCluster ", vClusterName, ": ">>, e)

WakeWaitErr(vClusterName, e) ==
    Wrapf(<<"error waiting for vCluster to wake up ">>, e)

\* variant: the deletion failure is returned as it came
DeleteErrRaw(vClusterName, e) == e

DeleteErr(vClusterName, e) == Wrapf(<<"delete vcluster workloads: ">>, e)

SnoozeConfirmation == "No. Leave it sleeping. (It will be added automatically on next wakeup)"
WakeConfirmation == "Yes. Wake and add now."
Answers == {SnoozeConfirmation, WakeConfirmation}

\* find.GetVCluster(ctx, context, name, namespace, log): the instances of the
\* host cluster that carry the name, in the namespace when one is given
Lookup(name, namespace) ==
    { v \in { Flatten(world)[k] : k \in 1..Len(Flatten(world)) } :
        /\ v.Name = name
        /\ namespace = "" \/ v.Namespace = namespace }

\* ---- files and documents of the backup command ---------------------------
NoFile == [exists |-> FALSE, format |-> "", items |-> <<>>]
OldFile == [exists |-> TRUE, format |-> "old", items |-> <<>>]
PartialFile == [exists |-> TRUE, format |-> "partial", items |-> <<>>]
NoBytes == [exists |-> FALSE, format |-> "", items |-> <<>>]

\* the backup command is not running
BackupIdle ==
    /\ bpc = "idle"
    /\ skip = {}
    /\ plane = [present |-> {}, failing |-> {}]
    /\ file0 = NoFile
    /\ file = NoFile
    /\ objects = <<>>
    /\ collErrs = <<>>
    /\ backupBytes = NoBytes
    /\ bresult = Nil
    /\ blog = <<>>

\* ---- initial state ------------------------------------------------------
Init ==
    /\ opts \in [All : BOOLEAN, Restart : BOOLEAN]
    /\ world \in Worlds
    /\ argName \in (IF opts.All THEN {""} ELSE AllNames)
    /\ gNamespace \in FlagNamespaces
    /\ cancelled = FALSE
    /\ pc = "start"
    /\ nsIdx = 0
    /\ vClusters = <<>>
    /\ kubeClient = NoClient
    /\ idx = 0
    /\ cur = NoVCluster
    /\ snoozed = FALSE
    /\ ticks = 0
    /\ errs = <<>>
    /\ result = Nil
    /\ retAt = "none"
    /\ trace = <<>>
    /\ recorded = <<>>
    /\ BackupIdle

\* return e from AddVClusterHelm at the statement named by at
ReturnAt(at, e) ==
    /\ pc' = "done"
    /\ retAt' = at
    /\ result' = e

\* ---- AddVClusterHelm: resolution of the targets -------------------------
\* options.All: the host cluster client
HostClient ==
    /\ pc = "start"
    /\ opts.All
    /\ \/ /\ pc' = "listNs"
          /\ trace' = Append(trace, Call("hostClient", 0, TRUE))
          /\ UNCHANGED <<result, retAt>>
       \/ \E e \in ExtErrs :
             /\ ReturnAt("hostClient", e)
             /\ trace' = Append(trace, Call("hostClient", 0, FALSE))
    /\ UNCHANGED <<bvars, opts, argName, gNamespace, world, cancelled, nsIdx, vClusters,
                   kubeClient, idx, cur, snoozed, ticks, errs, recorded>>

\* hostKubeClient.CoreV1().Namespaces().List
ListNamespaces ==
    /\ pc = "listNs"
    /\ \/ /\ pc' = "scan"
          /\ nsIdx' = 1
          /\ trace' = Append(trace, Call("listNamespaces", 0, TRUE))
          /\ UNCHANGED <<result, retAt>>
       \/ \E e \in ExtErrs :
             /\ ReturnAt("listNamespaces", e)
             /\ trace' = Append(trace, Call("listNamespaces", 0, FALSE))
             /\ UNCHANGED nsIdx
    /\ UNCHANGED <<bvars, opts, argName, gNamespace, world, cancelled, vClusters,
                   kubeClient, idx, cur, snoozed, ticks, errs, recorded>>

\* variant: a namespace whose listing fails is skipped
ScanNamespaceContinue ==
    /\ pc = "scan"
    /\ nsIdx <= Len(world)
    /\ \/ /\ vClusters' = vClusters \o world[nsIdx]
          /\ trace' = Append(trace, Call("listVClusters", nsIdx, TRUE))
       \/ /\ trace' = Append(trace, Call("listVClusters", nsIdx, FALSE))
          /\ UNCHANGED vClusters
    /\ nsIdx' = nsIdx + 1
    /\ UNCHANGED <<bvars, opts, argName, gNamespace, world, cancelled, pc, result, retAt,
                   kubeClient, idx, cur, snoozed, ticks, errs, recorded>>

\* one iteration of the loop over namespaces.Items
ScanNamespace ==
    /\ pc = "scan"
    /\ nsIdx <= Len(world)
    /\ \/ /\ vClusters' = vClusters \o world[nsIdx]
          /\ nsIdx' = nsIdx + 1
          /\ trace' = Append(trace, Call("listVClusters", nsIdx, TRUE))
          /\ UNCHANGED <<pc, result, retAt>>
       \/ \E e \in ExtErrs :
             /\ ReturnAt("listVClusters", e)
             /\ trace' = Append(trace, Call("listVClusters", nsIdx, FALSE))
             /\ UNCHANGED <<vClusters, nsIdx>>
    /\ UNCHANGED <<bvars, opts, argName, gNamespace, world, cancelled,
                   kubeClient, idx, cur, snoozed, ticks, errs, recorded>>

\* not options.All: find.GetVCluster for the named vCluster
GetSingle ==
    /\ pc = "start"
    /\ ~opts.All
    /\ \/ \E v \in Lookup(argName, gNamespace) :
             /\ vClusters' = <<v>>
             /\ pc' = "checkEmpty"
             /\ trace' = Append(trace, Call("getVCluster", 0, TRUE))
             /\ UNCHANGED <<result, retAt>>
       \/ \E e \in ExtErrs :
             /\ ReturnAt("getVCluster", e)
             /\ trace' = Append(trace, Call("getVCluster", 0, FALSE))
             /\ UNCHANGED vClusters
    /\ UNCHANGED <<bvars, opts, argName, gNamespace, world, cancelled, nsIdx,
                   kubeClient, idx, cur, snoozed, ticks, errs, recorded>>

\* variant: an empty target list is reported as an error
CheckEmptyAsError ==
    /\ \/ pc = "checkEmpty"
       \/ pc = "scan" /\ nsIdx > Len(world)
    /\ IF Len(vClusters) = 0
       THEN ReturnAt("empty", New(<<"no vclusters found">>))
       ELSE /\ pc' = "bootstrap"
            /\ UNCHANGED <<result, retAt>>
    /\ UNCHANGED <<bvars, opts, argName, gNamespace, world, cancelled, nsIdx, vClusters,
                   kubeClient, idx, cur, snoozed, ticks, errs, trace, recorded>>

\* if len(vClusters) == 0 { return nil }
CheckEmpty ==
    /\ \/ pc = "checkEmpty"
       \/ pc = "scan" /\ nsIdx > Len(world)
    /\ IF Len(vClusters) = 0
       THEN ReturnAt("empty", Nil)
       ELSE /\ pc' = "bootstrap"
            /\ UNCHANGED <<result, retAt>>
    /\ UNCHANGED <<bvars, opts, argName, gNamespace, world, cancelled, nsIdx, vClusters,
                   kubeClient, idx, cur, snoozed, ticks, errs, trace, recorded>>

\* vClusters[0].ClientFactory.ClientConfig() and kubernetes.NewForConfig
Bootstrap ==
    /\ pc = "bootstrap"
    /\ IF vClusters[1].ConnOK
       THEN /\ kubeClient' = [Name |-> vClusters[1].Name,
                              Namespace |-> vClusters[1].Namespace]
            /\ idx' = 1
            /\ pc' = "loop"
            /\ trace' = Append(trace, Call("connect", 1, TRUE))
            /\ UNCHANGED <<result, retAt>>
       ELSE \E e \in ExtErrs :
             /\ ReturnAt("connect", e)
             /\ trace' = Append(trace, Call("connect", 1, FALSE))
             /\ UNCHANGED <<kubeClient, idx>>
    /\ UNCHANGED <<bvars, opts, argName, gNamespace, world, cancelled, nsIdx, vClusters,
                   cur, snoozed, ticks, errs, recorded>>

\* ---- AddVClusterHelm: the loop over the targets --------------------------
\* variant: the first failing target ends the loop
EndTargetAbort(outcome, err) ==
    /\ recorded' = Append(recorded, [name |-> vClusters[idx].Name, err |-> err,
                                     outcome |-> outcome, asleep |-> snoozed])
    /\ cur' = NoVCluster
    /\ snoozed' = FALSE
    /\ ticks' = 0
    /\ IF err = Nil
       THEN /\ idx' = idx + 1
            /\ pc' = "loop"
            /\ UNCHANGED <<errs, result, retAt>>
       ELSE /\ ReturnAt("target", err)
            /\ UNCHANGED <<errs, idx>>

\* addErr.addErr(vCluster.Name, addVClusterHelm(...)) once addVClusterHelm
\* has returned err (its locals go out of scope), then the next iteration
EndTarget(outcome, err) ==
    /\ errs' = addErr(errs, vClusters[idx].Name, err)
    /\ recorded' = Append(recorded, [name |-> vClusters[idx].Name, err |-> err,
                                     outcome |-> outcome, asleep |-> snoozed])
    /\ idx' = idx + 1
    /\ pc' = "loop"
    /\ cur' = NoVCluster
    /\ snoozed' = FALSE
    /\ ticks' = 0
    /\ UNCHANGED <<result, retAt>>

\* variant: the operator is asked whatever the status
BeginTargetAlwaysPrompt ==
    /\ pc = "loop"
    /\ idx <= Len(vClusters)
    /\ cur' = vClusters[idx]
    /\ snoozed' = FALSE
    /\ ticks' = 0
    /\ pc' = "prompt"
    /\ UNCHANGED <<bvars, opts, argName, gNamespace, world, cancelled, nsIdx, vClusters,
                   kubeClient, idx, errs, result, retAt, trace, recorded>>

\* entry of addVClusterHelm for vClusters[idx]: snoozed := false and the
\* lifecycle.IsPaused(vCluster) test
BeginTarget ==
    /\ pc = "loop"
    /\ idx <= Len(vClusters)
    /\ cur' = vClusters[idx]
    /\ snoozed' = FALSE
    /\ ticks' = 0
    /\ pc' = IF vClusters[idx].Paused THEN "prompt" ELSE "apply"
    /\ UNCHANGED <<bvars, opts, argName, gNamespace, world, cancelled, nsIdx, vClusters,
                   kubeClient, idx, errs, result, retAt, trace, recorded>>

\* log.Question: wake now or leave sleeping
Prompt ==
    /\ pc = "prompt"
    /\ \/ \E answer \in Answers :
             /\ snoozed' = (answer = SnoozeConfirmation)
             /\ pc' = IF answer = SnoozeConfirmation THEN "apply" ELSE "resume"
             /\ trace' = Append(trace, Call("prompt", idx, TRUE))
             /\ UNCHANGED <<errs, recorded, idx, result, retAt, cur, ticks>>
       \/ \E e \in ExtErrs :
             /\ EndTarget("promptFailed", PromptErr(cur.Name, e))
             /\ trace' = Append(trace, Call("prompt", idx, FALSE))
    /\ UNCHANGED <<bvars, opts, argName, gNamespace, world, cancelled, nsIdx, vClusters,
                   kubeClient>>

\* variant: a failed resume is not returned
ResumeIgnoresError ==
    /\ pc = "resume"
    /\ \/ /\ pc' = "poll"
          /\ trace' = Append(trace, Call("resume", idx, TRUE))
       \/ /\ pc' = "apply"
          /\ trace' = Append(trace, Call("resume", idx, FALSE))
    /\ UNCHANGED <<bvars, opts, argName, gNamespace, world, cancelled, nsIdx, vClusters,
                   kubeClient, errs, recorded, idx, result, retAt, cur, snoozed, ticks>>

\* ResumeHelm(ctx, globalFlags, vClusterName, log)
Resume ==
    /\ pc = "resume"
    /\ \/ /\ pc' = "poll"
          /\ trace' = Append(trace, Call("resume", idx, TRUE))
          /\ UNCHANGED <<errs, recorded, idx, result, retAt, cur, snoozed, ticks>>
       \/ \E e \in CtxErrs :
             /\ EndTarget("wakeFailed", WakeCmdErr(vClusters[idx].Name, e))
             /\ trace' = Append(trace, Call("resume", idx, FALSE))
    /\ UNCHANGED <<bvars, opts, argName, gNamespace, world, cancelled, nsIdx, vClusters,
                   kubeClient>>

\* variant: the condition reports done while the vCluster is still paused
PollTickInverted ==
    /\ pc = "poll"
    /\ IF cancelled
       THEN /\ EndTarget("wakeCancelled", WakeWaitErr(vClusters[idx].Name, Canceled))
            /\ UNCHANGED trace
       ELSE IF ticks >= TimeoutTicks
       THEN /\ EndTarget("wakeTimeout", WakeWaitErr(vClusters[idx].Name, DeadlineExceeded))
            /\ UNCHANGED trace
       ELSE \/ \E v \in Lookup(vClusters[idx].Name, gNamespace), paused \in BOOLEAN :
                 /\ cur' = [v EXCEPT !.Paused = paused]
                 /\ ticks' = ticks + 1
                 /\ pc' = IF paused THEN "apply" ELSE "poll"
                 /\ trace' = Append(trace, Call("poll", idx, TRUE))
                 /\ UNCHANGED <<errs, recorded, idx, result, retAt, snoozed>>
            \/ \E e \in ExtErrs :
                 /\ EndTarget("wakeQueryFailed", WakeWaitErr(vClusters[idx].Name, e))
                 /\ trace' = Append(trace, Call("poll", idx, FALSE))
    /\ UNCHANGED <<bvars, opts, argName, gNamespace, world, cancelled, nsIdx, vClusters,
                   kubeClient>>

\* wait.PollUntilContextTimeout(ctx, time.Second, clihelper.Timeout(), false, ...):
\* the wait for the context or the next interval, then the condition
PollTick ==
    /\ pc = "poll"
    /\ IF cancelled
       THEN /\ EndTarget("wakeCancelled", WakeWaitErr(vClusters[idx].Name, Canceled))
            /\ UNCHANGED trace
       ELSE IF ticks >= TimeoutTicks
       THEN /\ EndTarget("wakeTimeout", WakeWaitErr(vClusters[idx].Name, DeadlineExceeded))
            /\ UNCHANGED trace
       ELSE \/ \E v \in Lookup(vClusters[idx].Name, gNamespace), paused \in BOOLEAN :
                 /\ cur' = [v EXCEPT !.Paused = paused]
                 /\ ticks' = ticks + 1
                 /\ pc' = IF paused THEN "poll" ELSE "apply"
                 /\ trace' = Append(trace, Call("poll", idx, TRUE))
                 /\ UNCHANGED <<errs, recorded, idx, result, retAt, snoozed>>
            \/ \E e \in ExtErrs :
                 /\ EndTarget("wakeQueryFailed", WakeWaitErr(vClusters[idx].Name, e))
                 /\ trace' = Append(trace, Call("poll", idx, FALSE))
    /\ UNCHANGED <<bvars, opts, argName, gNamespace, world, cancelled, nsIdx, vClusters,
                   kubeClient>>

\* variant: a failed apply is not returned
ApplyIgnoresError ==
    /\ pc = "apply"
    /\ pc' = "restart"
    /\ \E ok \in BOOLEAN :
          trace' = Append(trace, Ev("apply", idx, ok, cur.Namespace, kubeClient))
    /\ UNCHANGED <<bvars, opts, argName, gNamespace, world, cancelled, nsIdx, vClusters,
                   kubeClient, errs, recorded, idx, result, retAt, cur, snoozed, ticks>>

\* platform.ApplyPlatformSecret(ctx, ..., kubeClient, ..., vCluster.Namespace, ...)
Apply ==
    /\ pc = "apply"
    /\ \/ /\ pc' = "restart"
          /\ trace' = Append(trace, Ev("apply", idx, TRUE, cur.Namespace, kubeClient))
          /\ UNCHANGED <<errs, recorded, idx, result, retAt, cur, snoozed, ticks>>
       \/ \E e \in ExtErrs :
             /\ EndTarget("applyFailed", e)
             /\ trace' = Append(trace, Ev("apply", idx, FALSE, cur.Namespace, kubeClient))
    /\ UNCHANGED <<bvars, opts, argName, gNamespace, world, cancelled, nsIdx, vClusters,
                   kubeClient>>

\* if options.Restart { lifecycle.DeletePods(...) }, then the closing log lines
Restart ==
    /\ pc = "restart"
    /\ IF opts.Restart
       THEN \/ /\ EndTarget("ok", Nil)
               /\ trace' = Append(trace, Ev("deletePods", idx, TRUE, cur.Namespace, kubeClient))
            \/ \E e \in ExtErrs :
                 /\ EndTarget("restartFailed", DeleteErr(cur.Name, e))
                 /\ trace' = Append(trace, Ev("deletePods", idx, FALSE, cur.Namespace, kubeClient))
       ELSE /\ EndTarget("ok", Nil)
            /\ UNCHANGED trace
    /\ UNCHANGED <<bvars, opts, argName, gNamespace, world, cancelled, nsIdx, vClusters,
                   kubeClient>>

\* return addErr.CombinedError()
Return ==
    /\ pc = "loop"
    /\ idx > Len(vClusters)
    /\ ReturnAt("end", CombinedError(errs))
    /\ UNCHANGED <<bvars, opts, argName, gNamespace, world, cancelled, nsIdx, vClusters,
                   kubeClient, idx, cur, snoozed, ticks, errs, trace, recorded>>

\* the caller cancels ctx
Cancel ==
    /\ pc # "done"
    /\ ~cancelled
    /\ cancelled' = TRUE
    /\ UNCHANGED <<bvars, opts, argName, gNamespace, world, pc, nsIdx, vClusters,
                   kubeClient, idx, cur, snoozed, ticks, errs, result, retAt,
                   trace, recorded>>

Next ==
    \/ HostClient
    \/ ListNamespaces
    \/ ScanNamespace
    \/ GetSingle
    \/ CheckEmpty
    \/ Bootstrap
    \/ BeginTarget
    \/ Prompt
    \/ Resume
    \/ PollTick
    \/ Apply
    \/ Restart
    \/ Return
    \/ Cancel

Spec == Init /\ [][Next]_vars

\* the steps of the program itself: every call it makes returns
Step ==
    \/ HostClient
    \/ ListNamespaces
    \/ ScanNamespace
    \/ GetSingle
    \/ CheckEmpty
    \/ Bootstrap
    \/ BeginTarget
    \/ Prompt
    \/ Resume
    \/ PollTick
    \/ Apply
    \/ Restart
    \/ Return

FairSpec == Init /\ [][Next]_vars /\ WF_vars(Step)

\* ---- BackupCmd.run -------------------------------------------------------
\* the catalogue of resource kinds, in collection order
Kinds == <<"users", "teams", "clusters">>
KindSet == { Kinds[k] : k \in 1..Len(Kinds) }

\* values of --skip: names of the catalogue and a name outside it
SkipChoices == KindSet \cup {"unknown"}

BackupAnswers == {"Yes", "No", ""}

ListErr(kind) == New(<<"list ", kind, " failed">>)

\* backup.All(ctx, client, skip, infoFn): every kind of the catalogue that is
\* not skipped is listed; a failed listing adds an error and the scan goes on
RECURSIVE CollectFrom(_, _, _)
CollectFrom(kinds, sk, pl) ==
    IF kinds = <<>> THEN [objects |-> <<>>, errors |-> <<>>]
    ELSE LET k == Head(kinds)
             rest == CollectFrom(Tail(kinds), sk, pl)
         IN  IF k \in sk THEN rest
             ELSE IF k \in pl.failing
                  THEN [rest EXCEPT !.errors = <<ListErr(k)>> \o @]
             ELSE IF k \in pl.present
                  THEN [rest EXCEPT !.objects = <<[kind |-> k, name |-> k]>> \o @]
             ELSE rest

BackupAll(sk, pl) == CollectFrom(Kinds, sk, pl)

\* backup.ToYAML(objects): one document holding every object with its kind
ToYAML(objs) == [exists |-> TRUE, format |-> "yaml", items |-> objs]

PlatformClientErr(e) == Wrapf(<<"create vCluster platform client: ">>, e)

KubeConfigErr(e) ==
    [nil |-> FALSE,
     msg |-> <<"there is an error loading your current kube config (">> \o e.msg
             \o <<"), please make sure you have access to a kubernetes cluster">>
             \o <<" and the command kubectl get namespaces is working">>,
     chain |-> <<e.msg>> \o e.chain]

\* one call made or line logged by the command
BEv(op, ok, info) == [op |-> op, ok |-> ok, info |-> info]

\* cmd.Log.Warn(err) for every error of the collector, in order
Warnings(es) == [k \in 1..Len(es) |-> BEv("warn", TRUE, es[k].msg[2])]

InitBackup ==
    /\ opts = [All |-> FALSE, Restart |-> FALSE]
    /\ argName = ""
    /\ gNamespace = ""
    /\ world = <<>>
    /\ cancelled = FALSE
    /\ pc = "idle"
    /\ nsIdx = 0
    /\ vClusters = <<>>
    /\ kubeClient = NoClient
    /\ idx = 0
    /\ cur = NoVCluster
    /\ snoozed = FALSE
    /\ ticks = 0
    /\ errs = <<>>
    /\ result = Nil
    /\ retAt = "none"
    /\ trace = <<>>
    /\ recorded = <<>>
    /\ bpc = "start"
    /\ skip \in SUBSET SkipChoices
    /\ plane \in [present : SUBSET KindSet, failing : SUBSET KindSet]
    /\ file0 \in {NoFile, OldFile}
    /\ file = file0
    /\ objects = <<>>
    /\ collErrs = <<>>
    /\ backupBytes = NoBytes
    /\ bresult = Nil
    /\ blog = <<>>

\* return e from RunE / run
BReturn(e) ==
    /\ bpc' = "done"
    /\ bresult' = e

\* RunE: platform.NewClientFromConfig
BPlatformClient ==
    /\ bpc = "start"
    /\ \/ /\ bpc' = "kubeConfig"
          /\ blog' = Append(blog, BEv("platformClient", TRUE, ""))
          /\ UNCHANGED bresult
       \/ \E e \in ExtErrs :
             /\ BReturn(PlatformClientErr(e))
             /\ blog' = Append(blog, BEv("platformClient", FALSE, ""))
    /\ UNCHANGED <<avars, skip, plane, file0, file, objects, collErrs, backupBytes>>

\* kubeClientConfig.ClientConfig() and kubernetes.NewForConfig
BKubeConfig ==
    /\ bpc = "kubeConfig"
    /\ \/ /\ bpc' = "isInstalled"
          /\ blog' = Append(blog, BEv("kubeConfig", TRUE, ""))
          /\ UNCHANGED bresult
       \/ \E e \in ExtErrs :
             /\ BReturn(KubeConfigErr(e))
             /\ blog' = Append(blog, BEv("kubeConfig", FALSE, ""))
    /\ UNCHANGED <<avars, skip, plane, file0, file, objects, collErrs, backupBytes>>

\* clihelper.IsLoftAlreadyInstalled
BIsInstalled ==
    /\ bpc = "isInstalled"
    /\ \/ \E isInstalled \in BOOLEAN :
             /\ bpc' = IF isInstalled THEN "client" ELSE "prompt"
             /\ blog' = Append(blog, BEv("isInstalled", TRUE,
                                         IF isInstalled THEN "installed" ELSE "missing"))
             /\ UNCHANGED bresult
       \/ \E e \in ExtErrs :
             /\ BReturn(e)
             /\ blog' = Append(blog, BEv("isInstalled", FALSE, ""))
    /\ UNCHANGED <<avars, skip, plane, file0, file, objects, collErrs, backupBytes>>

\* variant: the answer to the question is not looked at
BPromptIgnoresAnswer ==
    /\ bpc = "prompt"
    /\ \/ \E answer \in BackupAnswers :
             /\ blog' = Append(blog, BEv("prompt", TRUE, answer))
             /\ bpc' = "client"
             /\ UNCHANGED bresult
       \/ \E e \in ExtErrs :
             /\ BReturn(e)
             /\ blog' = Append(blog, BEv("prompt", FALSE, ""))
    /\ UNCHANGED <<avars, skip, plane, file0, file, objects, collErrs, backupBytes>>

\* cmd.Log.Question: continue although the platform was not found?
BPrompt ==
    /\ bpc = "prompt"
    /\ \/ \E answer \in BackupAnswers :
             /\ blog' = Append(blog, BEv("prompt", TRUE, answer))
             /\ IF answer # "Yes"
                THEN BReturn(Nil)
                ELSE /\ bpc' = "client"
                     /\ UNCHANGED bresult
       \/ \E e \in ExtErrs :
             /\ BReturn(e)
             /\ blog' = Append(blog, BEv("prompt", FALSE, ""))
    /\ UNCHANGED <<avars, skip, plane, file0, file, objects, collErrs, backupBytes>>

\* clientpkg.New(kubeConfig, ...)
BClient ==
    /\ bpc = "client"
    /\ \/ /\ bpc' = "collect"
          /\ blog' = Append(blog, BEv("client", TRUE, ""))
          /\ UNCHANGED bresult
       \/ \E e \in ExtErrs :
             /\ BReturn(e)
             /\ blog' = Append(blog, BEv("client", FALSE, ""))
    /\ UNCHANGED <<avars, skip, plane, file0, file, objects, collErrs, backupBytes>>

\* variant: the first error of the collector is returned
BCollectAbortsOnError ==
    /\ bpc = "collect"
    /\ objects' = BackupAll(skip, plane).objects
    /\ collErrs' = BackupAll(skip, plane).errors
    /\ blog' = Append(blog, BEv("collect", TRUE, ""))
    /\ IF collErrs' # <<>>
       THEN BReturn(collErrs'[1])
       ELSE /\ bpc' = "toYAML"
            /\ UNCHANGED bresult
    /\ UNCHANGED <<avars, skip, plane, file0, file, backupBytes>>

\* objects, errors := backup.All(...), then a warning for every error
BCollect ==
    /\ bpc = "collect"
    /\ objects' = BackupAll(skip, plane).objects
    /\ collErrs' = BackupAll(skip, plane).errors
    /\ blog' = Append(blog, BEv("collect", TRUE, "")) \o Warnings(collErrs')
    /\ bpc' = "toYAML"
    /\ UNCHANGED <<avars, skip, plane, file0, file, backupBytes, bresult>>

\* backup.ToYAML(objects)
BToYAML ==
    /\ bpc = "toYAML"
    /\ \/ /\ backupBytes' = ToYAML(objects)
          /\ bpc' = "write"
          /\ blog' = Append(blog, BEv("toYAML", TRUE, ""))
          /\ UNCHANGED bresult
       \/ \E e \in ExtErrs :
             /\ BReturn(e)
             /\ blog' = Append(blog, BEv("toYAML", FALSE, ""))
             /\ UNCHANGED backupBytes
    /\ UNCHANGED <<avars, skip, plane, file0, file, objects, collErrs>>

\* os.WriteFile(cmd.Filename, backupBytes, 0644) between its two log lines;
\* a failed write leaves the file as it was, or created or truncated
BWrite ==
    /\ bpc = "write"
    /\ \/ /\ file' = backupBytes
          /\ blog' = blog \o <<BEv("writing", TRUE, ""), BEv("writeFile", TRUE, ""),
                                 BEv("wrote", TRUE, "")>>
          /\ BReturn(Nil)
       \/ \E e \in ExtErrs, f \in {file, PartialFile} :
             /\ file' = f
             /\ blog' = blog \o <<BEv("writing", TRUE, ""), BEv("writeFile", FALSE, "")>>
             /\ BReturn(e)
    /\ UNCHANGED <<avars, skip, plane, file0, objects, collErrs, backupBytes>>

NextBackup ==
    \/ BPlatformClient
    \/ BKubeConfig
    \/ BIsInstalled
    \/ BPrompt
    \/ BClient
    \/ BCollect
    \/ BToYAML
    \/ BWrite

SpecBackup == InitBackup /\ [][NextBackup]_vars

\* ---- properties ---------------------------------------------------------
TargetOps == {"connect", "prompt", "resume", "poll", "apply", "deletePods"}

\* positions in trace of the calls of the given kinds made for target t
EventsOf(t, ops) == { k \in 1..Len(trace) : trace[k].t = t /\ trace[k].op \in ops }

NoTargetWork == \A k \in 1..Len(trace) : trace[k].op \notin TargetOps

Failed == SelectSeq(recorded, LAMBDA r : r.err # Nil)

Tokens(m) == { m[k] : k \in 1..Len(m) }

\* the non-empty pieces of a message between its "|" tokens
RECURSIVE Split(_, _)
Split(m, piece) ==
    IF m = <<>> THEN (IF piece = <<>> THEN <<>> ELSE <<piece>>)
    ELSE IF Head(m) = "|"
         THEN (IF piece = <<>> THEN <<>> ELSE <<piece>>) \o Split(Tail(m), <<>>)
         ELSE Split(Tail(m), Append(piece, Head(m)))

\* C1: once the loop over the targets has started, a failing target never
\* ends the invocation: the only return is the final one, reached after
\* every resolved target was processed in order, and every failure sits in
\* the aggregator.
C1_FailuresNeverAbortSiblings ==
    /\ (pc = "done" /\ kubeClient # NoClient) =>
          /\ retAt = "end"
          /\ idx = Len(vClusters) + 1
          /\ Len(recorded) = Len(vClusters)
          /\ \A i \in 1..Len(vClusters) : recorded[i].name = vClusters[i].Name
    /\ \A i \in 1..Len(recorded) :
          recorded[i].err # Nil =>
            \E k \in 1..Len(errs) :
              errs[k] = Wrapf(AddPrefix(recorded[i].name), recorded[i].err)

C1_Witness ==
    /\ retAt = "end"
    /\ Len(vClusters) >= 2
    /\ recorded[1].err # Nil
    /\ recorded[2].outcome = "ok"
    /\ \E k \in EventsOf(2, {"apply"}) : trace[k].ok

\* C2: when resolution succeeds with zero targets the invocation returns nil
\* and has built no connection, asked nothing, resumed nothing, applied
\* nothing and deleted nothing.
C2_ZeroTargetsNoOp ==
    (/\ pc = "done"
     /\ Len(vClusters) = 0
     /\ \A k \in 1..Len(trace) : trace[k].ok)
    => /\ result = Nil
       /\ NoTargetWork
       /\ kubeClient = NoClient
       /\ errs = <<>>
       /\ recorded = <<>>

C2_Witness ==
    /\ pc = "done"
    /\ retAt = "empty"
    /\ opts.All
    /\ Len(world) >= 1
    /\ Len(vClusters) = 0

\* C3: the aggregator is empty exactly when every recorded error was nil, it
\* holds the wrapped errors of the failed targets in processing order, and
\* the final return is nil exactly when every target succeeded.
C3_EmptyIffSuccess ==
    /\ (errs = <<>>) <=> (\A i \in 1..Len(recorded) : recorded[i].err = Nil)
    /\ errs = [k \in 1..Len(Failed) |-> Wrapf(AddPrefix(Failed[k].name), Failed[k].err)]
    /\ retAt = "end" =>
          /\ Len(recorded) = Len(vClusters)
          /\ (result = Nil) <=> (\A i \in 1..Len(recorded) : recorded[i].outcome = "ok")

C3_Witness ==
    /\ retAt = "end"
    /\ Len(errs) = 1
    /\ Len(recorded) >= 2
    /\ recorded[1].err = Nil
    /\ result # Nil

\* C4: with two or more recorded failures the combined error is one error
\* whose message, cut at its "|" separators, is exactly the list of the
\* stored messages in recording order.
C4_CombineKeepsEveryMessage ==
    (retAt = "end" /\ Len(errs) >= 2) =>
       /\ ~result.nil
       /\ Split(result.msg, <<>>) = [k \in 1..Len(errs) |-> errs[k].msg]

C4_Witness ==
    /\ retAt = "end"
    /\ Len(errs) >= 2
    /\ errs[1].msg # errs[2].msg

\* C5: with exactly one recorded failure the combined error is the stored
\* error itself: "cannot add vcluster <name>: <err>" wrapping the target's
\* error once.
C5_SingleErrorReturnedAsIs ==
    (retAt = "end" /\ Len(errs) = 1) =>
       /\ result = errs[1]
       /\ Len(Failed) = 1
       /\ result.msg = AddPrefix(Failed[1].name) \o Failed[1].err.msg
       /\ result.chain = <<Failed[1].err.msg>> \o Failed[1].err.chain

C5_Witness ==
    /\ retAt = "end"
    /\ Len(errs) = 1
    /\ Len(vClusters) >= 2
    /\ Head(result.msg) = "cannot add vcluster "

\* C6: a target resolved as not paused is never asked about, never resumed
\* and never polled, and its snoozed flag stays false.
C6_ActiveNeverPrompts ==
    \A t \in 1..Len(vClusters) :
       ~vClusters[t].Paused =>
          /\ EventsOf(t, {"prompt", "resume", "poll"}) = {}
          /\ (idx = t /\ pc \in {"prompt", "resume", "poll", "apply", "restart"})
                => (~snoozed /\ pc \in {"apply", "restart"})
          /\ t <= Len(recorded) => ~recorded[t].asleep

C6_Witness ==
    \E t \in 1..Len(recorded) :
       /\ ~vClusters[t].Paused
       /\ recorded[t].outcome = "ok"
       /\ EventsOf(t, {"apply"}) # {}

\* C7: for a paused target left sleeping the registration record is still
\* applied and no workload pods are deleted for it, whatever options.Restart.
C7_SleepingTargetNeverRestarted ==
    \A t \in 1..Len(recorded) :
       recorded[t].asleep =>
          /\ EventsOf(t, {"apply"}) # {}
          /\ EventsOf(t, {"deletePods"}) = {}

\* C8: when the resume command succeeded and the poll ran into its timeout,
\* the target fails with the wait error carrying the deadline error, an
\* error no failure of the resume command can produce for any target.
C8_TimeoutErrorDistinct ==
    \A t \in 1..Len(recorded) :
       recorded[t].outcome = "wakeTimeout" =>
          /\ \E k \in EventsOf(t, {"resume"}) : trace[k].ok
          /\ \A k \in EventsOf(t, {"poll"}) : trace[k].ok
          /\ EventsOf(t, {"apply", "deletePods"}) = {}
          /\ ~recorded[t].err.nil
          /\ Head(recorded[t].err.chain) = DeadlineExceeded.msg
          /\ \A n \in AllNames, c \in CtxErrs \cup {Canceled} :
                recorded[t].err.msg # WakeCmdErr(n, c).msg
          /\ \A u \in 1..Len(recorded) :
                recorded[u].outcome = "wakeFailed" =>
                   recorded[u].err.msg # recorded[t].err.msg

C8_Witness ==
    \E t, u \in 1..Len(recorded) :
       /\ recorded[t].outcome = "wakeTimeout"
       /\ Cardinality(EventsOf(t, {"poll"})) = TimeoutTicks
       /\ recorded[u].outcome = "wakeFailed"
       /\ recorded[u].err.chain = recorded[t].err.chain

\* C9: with --all over two targets, one not paused and healthy and one whose
\* connection cannot be built, the invocation ends with an error naming the
\* failing target only, and the healthy target has been applied.
C9_BadConnectionOnlyFailsItsTarget ==
    (/\ pc = "done"
     /\ opts.All
     /\ Len(vClusters) = 2
     /\ \A k \in 1..Len(trace) :
           trace[k].op \in {"hostClient", "listNamespaces", "listVClusters"} => trace[k].ok)
    => \A good, bad \in 1..2 :
          (/\ good # bad
           /\ ~vClusters[bad].ConnOK
           /\ vClusters[good].ConnOK
           /\ ~vClusters[good].Paused
           /\ \A k \in EventsOf(good, {"apply", "deletePods"}) : trace[k].ok)
          => /\ ~result.nil
             /\ vClusters[bad].Name \in Tokens(result.msg)
             /\ vClusters[good].Name # vClusters[bad].Name
                   => vClusters[good].Name \notin Tokens(result.msg)
             /\ \E k \in EventsOf(good, {"apply"}) : trace[k].ok

\* C10: with --all, once listing the namespaces or the vClusters of any
\* namespace has failed, the invocation has returned that error and no
\* connection, prompt, resume, poll, apply or deletion is ever made.
C10_ResolutionFailureAbortsAll ==
    (\E k \in 1..Len(trace) :
        trace[k].op \in {"listNamespaces", "listVClusters"} /\ ~trace[k].ok)
    => /\ pc = "done"
       /\ result \in ExtErrs
       /\ NoTargetWork
       /\ kubeClient = NoClient
       /\ idx = 0
       /\ errs = <<>>
       /\ recorded = <<>>

C10_Witness ==
    /\ retAt = "listVClusters"
    /\ Len(vClusters) > 0
    /\ nsIdx = 2
    /\ ~result.nil

\* the call appended to trace by the step, if the step made one
MadeCall == Len(trace') = Len(trace) + 1

LastCall == trace'[Len(trace')]

\* C12: once ctx is cancelled the operation is aborted: no step taken with
\* ctx cancelled asks the operator, and none resumes a vCluster, applies a
\* record or deletes pods with success.
C12_NoTargetWorkAfterCancel ==
    [][cancelled => ~(/\ MadeCall
                      /\ \/ LastCall.op = "prompt"
                         \/ LastCall.op \in {"resume", "apply", "deletePods"} /\ LastCall.ok)]_vars

\* C13: every apply goes through a client built from the target's own
\* ClientFactory and addresses the target's own namespace.
C13_ApplyThroughOwnConnection ==
    \A k \in 1..Len(trace) :
       trace[k].op = "apply" =>
          /\ trace[k].via = [Name |-> vClusters[trace[k].t].Name,
                             Namespace |-> vClusters[trace[k].t].Namespace]
          /\ trace[k].ns = vClusters[trace[k].t].Namespace

TargetWork == {"prompt", "resume", "poll", "apply", "deletePods"}

InTarget == pc \in {"prompt", "resume", "poll", "apply", "restart"}

WrappedFailures == [k \in 1..Len(Failed) |-> Wrapf(AddPrefix(Failed[k].name), Failed[k].err)]

\* C14: the targets are processed one after the other in resolved order:
\* the calls made for the targets appear in target order, a call for a
\* target is only made once every earlier target has been recorded, and
\* the error list follows the same order.
C14_TargetsStrictlySequential ==
    /\ \A k, l \in 1..Len(trace) :
          (k < l /\ trace[k].op \in TargetWork /\ trace[l].op \in TargetWork)
             => trace[k].t <= trace[l].t
    /\ \A k \in 1..Len(trace) :
          trace[k].op \in TargetWork =>
             /\ trace[k].t \in 1..(Len(recorded) + 1)
             /\ trace[k].t = Len(recorded) + 1 => (InTarget /\ idx = trace[k].t)
    /\ InTarget => idx = Len(recorded) + 1
    /\ \A i \in 1..Len(recorded) : recorded[i].name = vClusters[i].Name
    /\ errs = WrappedFailures

C14_Witness ==
    /\ retAt = "end"
    /\ Len(errs) = 2
    /\ errs[1] # errs[2]
    /\ EventsOf(1, {"poll"}) # {}
    /\ EventsOf(2, {"prompt"}) # {}
    /\ \E k \in EventsOf(1, {"poll"}), l \in EventsOf(2, {"prompt"}) : k < l

\* C15: for every target there is at most one apply and at most one pod
\* deletion; pods are deleted only with options.Restart set and only after
\* the apply of the same target succeeded.
C15_ApplyPrecedesRestart ==
    \A t \in 1..Len(vClusters) :
       /\ Cardinality(EventsOf(t, {"apply"})) <= 1
       /\ Cardinality(EventsOf(t, {"deletePods"})) <= 1
       /\ \A d \in EventsOf(t, {"deletePods"}) :
             /\ opts.Restart
             /\ \E a \in EventsOf(t, {"apply"}) : a < d /\ trace[a].ok

C15_Witness ==
    \E t, u \in 1..Len(recorded) :
       /\ EventsOf(t, {"deletePods"}) # {}
       /\ \E a \in EventsOf(u, {"apply"}) : ~trace[a].ok
       /\ EventsOf(u, {"deletePods"}) = {}

\* C16: a pod deletion that fails after a successful apply is recorded for
\* its target as a "delete vcluster workloads" error unlike the error of any
\* other failure, nothing is done for the target after it, and the batch
\* still runs to its final return over all targets.
C16_RestartFailureRecorded ==
    \A t \in 1..Len(recorded) :
       (\E d \in EventsOf(t, {"deletePods"}) : ~trace[d].ok) =>
          /\ recorded[t].outcome = "restartFailed"
          /\ ~recorded[t].err.nil
          /\ Head(recorded[t].err.msg) = "delete vcluster workloads: "
          /\ recorded[t].err.chain # <<>>
          /\ \A u \in 1..Len(recorded) :
                recorded[u].outcome \notin {"restartFailed", "ok"}
                   => recorded[u].err.msg # recorded[t].err.msg
          /\ \E k \in 1..Len(errs) :
                errs[k] = Wrapf(AddPrefix(recorded[t].name), recorded[t].err)
          /\ \E a \in EventsOf(t, {"apply"}), d \in EventsOf(t, {"deletePods"}) :
                /\ trace[a].ok
                /\ a < d
                /\ \A k \in EventsOf(t, TargetWork) : k <= d
          /\ pc = "done" => (retAt = "end" /\ Len(recorded) = Len(vClusters))

C16_Witness ==
    /\ retAt = "end"
    /\ Len(recorded) >= 2
    /\ recorded[1].outcome = "restartFailed"
    /\ recorded[2].outcome = "applyFailed"
    /\ EventsOf(2, {"apply"}) # {}

RECURSIVE JoinPipe(_)
JoinPipe(es) ==
    IF es = <<>> THEN <<>>
    ELSE IF Len(es) = 1 THEN es[1].msg
    ELSE es[1].msg \o <<"|">> \o JoinPipe(Tail(es))

\* C17: with two or more recorded failures the message of the combined
\* error is m1|m2|...|mN, a "|" between consecutive messages and nowhere else.
C17_MessageIsPipeJoined ==
    (retAt = "end" /\ Len(errs) >= 2) => result.msg = JoinPipe(errs)

PauseFailures ==
    {"promptFailed", "wakeFailed", "wakeTimeout", "wakeQueryFailed", "wakeCancelled"}

\* number of failed targets among the first t recorded ones
FailedUpTo(t) == Cardinality({ i \in 1..t : recorded[i].err # Nil })

\* C18: when the prompt, the resume command or the wake poll of a target
\* fails, the target ends there: nothing is applied or deleted for it and
\* exactly one error is recorded for it.
C18_PauseFailureSkipsApply ==
    \A t \in 1..Len(vClusters) :
       (\/ \E k \in EventsOf(t, {"prompt", "resume", "poll"}) : ~trace[k].ok
        \/ t <= Len(recorded) /\ recorded[t].outcome \in PauseFailures)
       => /\ t <= Len(recorded)
          /\ recorded[t].outcome \in PauseFailures
          /\ EventsOf(t, {"apply", "deletePods"}) = {}
          /\ ~recorded[t].err.nil
          /\ Len(errs) = Len(Failed)
          /\ errs[FailedUpTo(t)] = Wrapf(AddPrefix(recorded[t].name), recorded[t].err)

C18_Witness ==
    /\ retAt = "end"
    /\ Len(recorded) >= 2
    /\ recorded[1].outcome = "wakeQueryFailed"
    /\ recorded[2].outcome = "promptFailed"
    /\ Len(errs) = 2

\* C19: the wake poll always ends: it is left for the apply only by a status
\* query made after the resume that reported not paused, otherwise by the
\* timeout, a failed query or the cancellation recorded as the target's
\* error; and the whole invocation eventually returns.
C19_PollAndInvocationTerminate ==
    /\ [][(pc = "poll" /\ pc' # "poll") =>
            IF pc' = "apply"
            THEN /\ MadeCall
                 /\ LastCall = Call("poll", idx, TRUE)
                 /\ ~cur'.Paused
                 /\ ticks' = ticks + 1
                 /\ \E k \in 1..Len(trace) :
                       trace[k] = Call("resume", idx, TRUE)
            ELSE /\ pc' = "loop"
                 /\ Len(recorded') = Len(recorded) + 1
                 /\ recorded'[Len(recorded')].outcome
                       \in {"wakeTimeout", "wakeQueryFailed", "wakeCancelled"}
                 /\ ~recorded'[Len(recorded')].err.nil]_vars
    /\ [][(pc = "poll" /\ pc' = "poll") =>
            \/ ticks' = ticks + 1 /\ ticks' <= TimeoutTicks
            \/ cancelled' /\ ~cancelled /\ ticks' = ticks]_vars
    /\ [](pc = "poll" => <>(pc # "poll"))
    /\ <>(pc = "done")

C19_Witness ==
    /\ retAt = "end"
    /\ Len(recorded) >= 2
    /\ recorded[1].outcome = "wakeTimeout"
    /\ recorded[2].outcome = "ok"
    /\ \E k \in EventsOf(2, {"poll"}) : trace[k].ok

\* ---- backup: collection errors and the declined prompt ---------------------
BHas(op) == \E k \in 1..Len(blog) : blog[k].op = op

BLast == blog[Len(blog)]

\* the calls of the command whose error is returned
HardOps == {"platformClient", "kubeConfig", "isInstalled", "prompt", "client",
            "toYAML", "writeFile"}

BWarnings == SelectSeq(blog, LAMBDA ev : ev.op = "warn")

\* C11: per-kind collection errors of the backup are only warnings: however
\* many there are, each is logged as a warning, the objects that were collected
\* (every listed kind that is neither skipped nor failing) are serialized and
\* written, and the command returns an error only when a hard call (setup,
\* serialization, file write) failed.
C11_CollectionErrorsAreWarnings ==
    /\ BHas("collect") =>
          /\ bpc \in {"toYAML", "write", "done"}
          /\ BWarnings = Warnings(collErrs)
          /\ Len(collErrs) = Cardinality((plane.failing \ skip))
          /\ { objects[k].kind : k \in 1..Len(objects) }
                 = (plane.present \ plane.failing) \ skip
          /\ \A k \in 1..Len(collErrs) : bresult # collErrs[k]
    /\ (bpc = "done" /\ BHas("collect")) =>
          /\ bresult # Nil <=> (BLast.op \in {"toYAML", "writeFile"} /\ ~BLast.ok)
          /\ bresult = Nil => (/\ file = ToYAML(objects)
                               /\ BLast = BEv("wrote", TRUE, ""))
    /\ (bpc = "done" /\ bresult # Nil) =>
          /\ blog # <<>>
          /\ BLast.op \in HardOps
          /\ ~BLast.ok

C11_Witness ==
    /\ bpc = "done"
    /\ bresult = Nil
    /\ Len(collErrs) >= 2
    /\ objects # <<>>
    /\ file0 = OldFile
    /\ file = ToYAML(objects)

\* C20: when the platform is not found and the prompt is answered with
\* anything but "Yes", the backup returns success, collects nothing and leaves
\* the file at filename as it was; and the "Wrote backup" line is logged only
\* right after a successful file write of the serialized objects.
C20_DeclinedPromptIsNoOp ==
    /\ \A k \in 1..Len(blog) :
          (blog[k].op = "prompt" /\ blog[k].ok /\ blog[k].info # "Yes") =>
              /\ k > 1
              /\ blog[k - 1] = BEv("isInstalled", TRUE, "missing")
              /\ k = Len(blog)
              /\ bpc = "done"
              /\ bresult = Nil
              /\ objects = <<>>
              /\ collErrs = <<>>
              /\ backupBytes = NoBytes
              /\ file = file0
    /\ \A k \in 1..Len(blog) :
          blog[k].op = "wrote" =>
              /\ k > 1
              /\ blog[k - 1] = BEv("writeFile", TRUE, "")
              /\ BHas("collect")
              /\ file = backupBytes
              /\ backupBytes = ToYAML(objects)

C20_Witness ==
    /\ bpc = "done"
    /\ BLast = BEv("prompt", TRUE, "No")
    /\ file0 = OldFile
    /\ file = OldFile
    /\ bresult = Nil
    /\ plane.present # {}

====
